---------------------------- MODULE Spec2Model ----------------------------
(***************************************************************************)
(* A model of the COSMOS reader of gmprocess (gmprocess/io/cosmos/core.py):*)
(* the format probe is_cosmos, the section reader _read_lines, the header  *)
(* mapper _get_header_info, the block reader _read_channel and the scan    *)
(* loop of read_cosmos.                                                    *)
(*                                                                         *)
(* Conventions.  A Python string is a sequence of chunks (one-character    *)
(* strings wherever the code looks inside the text), '' is << >>.  A       *)
(* number is the record Num(n), NaN is the record NaN, text is Str(s) and  *)
(* a dictionary key that was never assigned is Unset.  Python arrays are   *)
(* 0-based: At(a, i) is a[i].  The header values drawn here are whole      *)
(* numbers.                                                                *)
(***************************************************************************)
EXTENDS Integers, Sequences, FiniteSets, TLC

\* ------------------------------------------------------------------------
\* Values
\* ------------------------------------------------------------------------
Num(n) == [num |-> n]

NaN == [nan |-> TRUE]

Str(s) == [str |-> s]

Unset == [unset |-> TRUE]

IsNum(v) == DOMAIN v = {"num"}

At(a, i) == a[i + 1]

\* ------------------------------------------------------------------------
\* Text helpers: str.upper / str.lower, str.find, int(), str(), zfill
\* ------------------------------------------------------------------------
Lowers == <<"a","b","c","d","e","f","g","h","i","j","k","l","m",
            "n","o","p","q","r","s","t","u","v","w","x","y","z">>

Uppers == <<"A","B","C","D","E","F","G","H","I","J","K","L","M",
            "N","O","P","Q","R","S","T","U","V","W","X","Y","Z">>

upper_char(c) ==
    IF \E i \in 1..26 : Lowers[i] = c
    THEN Uppers[CHOOSE i \in 1..26 : Lowers[i] = c]
    ELSE c

lower_char(c) ==
    IF \E i \in 1..26 : Uppers[i] = c
    THEN Lowers[CHOOSE i \in 1..26 : Uppers[i] = c]
    ELSE c

upper(s) == [i \in 1..Len(s) |-> upper_char(s[i])]

lower(s) == [i \in 1..Len(s) |-> lower_char(s[i])]

\* s.find(sub) >= 0
contains(s, sub) ==
    \E k \in 0..(Len(s) - Len(sub)) :
        \A j \in 1..Len(sub) : s[k + j] = sub[j]

Digits == <<"0","1","2","3","4","5","6","7","8","9">>

IsDigit(c) == \E d \in 1..10 : Digits[d] = c

DigitVal(c) == (CHOOSE d \in 1..10 : Digits[d] = c) - 1

RECURSIVE DigitsVal(_)
DigitsVal(s) ==
    IF Len(s) = 0 THEN 0
    ELSE 10 * DigitsVal(SubSeq(s, 1, Len(s) - 1)) + DigitVal(s[Len(s)])

RECURSIVE strip(_)
strip(s) ==
    IF Len(s) > 0 /\ s[1] = " " THEN strip(Tail(s))
    ELSE IF Len(s) > 0 /\ s[Len(s)] = " " THEN strip(SubSeq(s, 1, Len(s) - 1))
    ELSE s

\* int(text): [ok |-> FALSE] stands for ValueError
py_int(text) ==
    LET s == strip(text)
        signed == Len(s) > 0 /\ s[1] \in {"-", "+"}
        body == IF signed THEN Tail(s) ELSE s
    IN  IF Len(body) > 0 /\ \A i \in 1..Len(body) : IsDigit(body[i])
        THEN [ok |-> TRUE,
              val |-> IF signed /\ s[1] = "-" THEN 0 - DigitsVal(body)
                      ELSE DigitsVal(body)]
        ELSE [ok |-> FALSE, val |-> 0]

RECURSIVE NatStr(_)
NatStr(n) ==
    IF n < 10 THEN <<Digits[n + 1]>>
    ELSE NatStr(n \div 10) \o <<Digits[(n % 10) + 1]>>

\* str(n) of an integer
py_str(n) == IF n < 0 THEN <<"-">> \o NatStr(0 - n) ELSE NatStr(n)

RECURSIVE zfill(_, _)
zfill(s, width) ==
    IF Len(s) >= width THEN s
    ELSE IF Len(s) > 0 /\ s[1] \in {"-", "+"}
         THEN <<s[1]>> \o zfill(Tail(s), width - 1)
         ELSE zfill(<<"0">> \o s, width)


RECURSIVE split(_, _)
\* s.split(d) for a one-character delimiter d
split(s, d) ==
    IF \E k \in 1..Len(s) : s[k] = d
    THEN LET k == CHOOSE k \in 1..Len(s) :
                      s[k] = d /\ \A j \in 1..(k - 1) : s[j] # d
         IN  <<SubSeq(s, 1, k - 1)>> \o split(SubSeq(s, k + 1, Len(s)), d)
    ELSE <<s>>

\* s[-n:]
last_chars(s, n) == IF Len(s) <= n THEN s ELSE SubSeq(s, Len(s) - n + 1, Len(s))

\* s[:n]
first_chars(s, n) == IF Len(s) <= n THEN s ELSE SubSeq(s, 1, n)

RECURSIVE join(_, _)
\* sep.join(parts)
join(sep, parts) ==
    IF Len(parts) = 0 THEN << >>
    ELSE IF Len(parts) = 1 THEN parts[1]
    ELSE parts[1] \o sep \o join(sep, Tail(parts))

\* ------------------------------------------------------------------------
\* Module constants and code tables (core.py lines 20-155)
\* ------------------------------------------------------------------------
TEXT_HDR_ROWS == 14

VALID_MARKERS ==
    << <<"C","O","R","R","E","C","T","E","D"," ",
         "A","C","C","E","L","E","R","A","T","I","O","N">>,
       <<"U","N","C","O","R","R","E","C","T","E","D"," ",
         "A","C","C","E","L","E","R","A","T","I","O","N">> >>

\* The reference table of data/fdsn_codes.csv: CODES, SOURCES1, SOURCES2.
\* Three of its rows stand for the table.
CODES == << <<"A","K">>, <<"U","W">>, <<"N","C">> >>

SOURCES1 == << <<"Alaska Regional Network">>,
               <<"Pacific Northwest Regional Seismic Network">>,
               <<"USGS Northern California Regional Network">> >>

SOURCES2 == << <<"University of Alaska Fairbanks">>,
               <<"University of Washington">>,
               <<"USGS Menlo Park">> >>

BUILDING_TYPES ==
    [c \in {1, 2, 3, 4, 5, 10, 11, 12, 20, 50, 51} |->
        CASE c = 1 -> <<"Small fiberglass shelter">>
          [] c = 2 -> <<"Small prefabricated metal bldg">>
          [] c = 3 -> <<"Sensors buried/set in ground">>
          [] c = 4 -> <<"Reference station">>
          [] c = 5 -> <<"Base of building">>
          [] c = 10 -> <<"Building">>
          [] c = 11 -> <<"Bridge">>
          [] c = 12 -> <<"Dam">>
          [] c = 20 -> <<"Other structure">>
          [] c = 50 -> <<"Geotechnical array">>
          [] c = 51 -> <<"Other array">>]

COSMOS_NETWORKS ==
    [c \in {1, 2, 3, 4, 5, 6, 7, 100, 200} |->
        CASE c = 1 -> << << >>, <<"U.S. Coast and Geodetic Survey">>,
                         <<"C","&","G","S">> >>
          [] c = 2 -> << <<"N","P">>, <<"U.S. Geological Survey">>,
                         <<"U","S","G","S">> >>
          [] c = 3 -> << <<"R","E">>, <<"U.S. Bureau of Reclamation">>,
                         <<"U","S","B","R">> >>
          [] c = 4 -> << << >>, <<"U.S. Army Corps of Engineers">>,
                         <<"A","C","O","E">> >>
          [] c = 5 -> << <<"C","E">>, <<"California Geological Survey">>,
                         <<"C","G","S">> >>
          [] c = 6 -> << <<"C","I">>, <<"California Institute of Technology">>,
                         <<"C","I","T">> >>
          [] c = 7 -> << <<"B","K">>, <<"UC Berkeley">>, <<"U","C","B">> >>
          [] c = 100 -> << <<"T","W">>, <<"Taiwan Weather Bureau">>,
                           <<"C","W","B">> >>
          [] c = 200 -> << <<"K","D">>, <<"Kandilli Observatory">>,
                           <<"K","O","E","R">> >>]

\* code -> (description, short label)
COSMOS_ORIENTATIONS ==
    [c \in {400, 401, 402, 500, 501, 600, 601, 700, 701, 2000} |->
        CASE c = 400 -> << <<"Up">>, <<"U","p">> >>
          [] c = 401 -> << <<"Down">>, <<"D","o","w","n">> >>
          [] c = 402 -> << <<"Vertical. sense not indicated">>,
                           <<"V","e","r","t">> >>
          [] c = 500 -> << <<"Radial, inward">>, <<"R","a","d","l">> >>
          [] c = 501 -> << <<"Transverse, 90 deg CW from radial">>,
                           <<"T","r","a","n">> >>
          [] c = 600 -> << <<"Longitudinal (relative to structure)">>,
                           <<"L","o","n","g">> >>
          [] c = 601 -> << <<"Tangential (relative to structure)">>,
                           <<"T","a","n","g">> >>
          [] c = 700 -> << <<"H1 (horiz. sensor, azimuth unknown)">>,
                           <<"H","1">> >>
          [] c = 701 -> << <<"H2 (horiz. sensor, azimuth unknown)">>,
                           <<"H","2">> >>
          [] c = 2000 -> << <<"Other (described in comments)">>,
                            <<"O","t","h","r">> >>]

FILTERS ==
    [c \in 0..6 |->
        CASE c = 0 -> <<"None">>
          [] c = 1 -> <<"Rectangular">>
          [] c = 2 -> <<"Cosine bell">>
          [] c = 3 -> <<"Ormsby">>
          [] c = 4 -> <<"Butterworth single direction">>
          [] c = 5 -> <<"Butterworth bi-directional">>
          [] c = 6 -> <<"Bessel">>]

\* code -> unit label (the conversion factor of the table is never read)
PHYSICAL_UNITS ==
    [c \in {1, 2, 3, 4, 5, 6, 7, 8, 9, 10, 11, 12, 23, 24, 25,
            50, 51, 22, 60, 80} |->
        CASE c = 1 -> <<"sec">>
          [] c = 2 -> <<"g">>
          [] c = 3 -> <<"secs & g">>
          [] c = 4 -> <<"cm/sec/sec">>
          [] c = 5 -> <<"cm/sec">>
          [] c = 6 -> <<"cm">>
          [] c = 7 -> <<"in/sec/sec">>
          [] c = 8 -> <<"in/sec">>
          [] c = 9 -> <<"in">>
          [] c = 10 -> <<"gal">>
          [] c = 11 -> <<"mg">>
          [] c = 12 -> <<"micro g">>
          [] c = 23 -> <<"deg/sec/sec">>
          [] c = 24 -> <<"deg/sec">>
          [] c = 25 -> <<"deg">>
          [] c = 50 -> <<"counts">>
          [] c = 51 -> <<"volts">>
          [] c = 22 -> <<"mvolts">>
          [] c = 60 -> <<"psi">>
          [] c = 80 -> <<"micro strain">>]

UNITS ==
    [c \in {1, 2, 3, 4, 10, 11, 12, 20, 21, 30, 31} |->
        CASE c = 1 -> <<"acc">>
          [] c = 2 -> <<"vel">>
          [] c = 3 -> <<"disp">>
          [] c = 4 -> <<"Relative Displacement">>
          [] c = 10 -> <<"Angular Acceleration">>
          [] c = 11 -> <<"Angular Velocity">>
          [] c = 12 -> <<"Angular Displacement">>
          [] c = 20 -> <<"Absolute Pressure">>
          [] c = 21 -> <<"Relative Pressure (gage)">>
          [] c = 30 -> <<"Volumetric Strain">>
          [] c = 31 -> <<"Linear Strain">>]

\* The codes of SENSOR_TYPES; the entry of code c is the text the table gives
SENSOR_TYPE_CODES ==
    {1, 2, 3, 4, 5, 6, 7, 8, 20, 21, 50, 51, 100, 101, 102, 150, 200, 900,
     1001, 1050, 1201, 1202, 1203, 1204, 1250, 1251, 1300, 1301, 1900,
     3000, 3500, 4000, 4500, 9000}

SENSOR_TYPES == [c \in SENSOR_TYPE_CODES |-> <<"sensor type", c>>]

\* ------------------------------------------------------------------------
\* Collaborators outside core.py
\* ------------------------------------------------------------------------
\* gmprocess.io.seedname.get_channel_name: the band+instrument-code channel
\* name of a sample rate and an orientation convention
get_channel_name(sample_rate, is_acceleration, is_vertical, is_north) ==
    [chan |-> [rate |-> sample_rate, acceleration |-> is_acceleration,
               vertical |-> is_vertical, north |-> is_north]]

\* gmprocess.stationtrace.PROCESS_LEVELS[key]
PROCESS_LEVELS(key) == Str(<<"PROCESS_LEVELS", key>>)

IsLeap(y) == (y % 4 = 0 /\ y % 100 # 0) \/ y % 400 = 0

DaysInMonth(y, m) ==
    IF m \in {4, 6, 9, 11} THEN 30
    ELSE IF m = 2 THEN (IF IsLeap(y) THEN 29 ELSE 28)
    ELSE 31

\* datetime(year, month, day, hour, minute, second, microsecond) does not raise
valid_datetime(y, mo, d, h, mi, sec, us) ==
    /\ y >= 1 /\ y <= 9999
    /\ mo >= 1 /\ mo <= 12
    /\ d >= 1 /\ d <= DaysInMonth(y, mo)
    /\ h >= 0 /\ h <= 23
    /\ mi >= 0 /\ mi <= 59
    /\ sec >= 0 /\ sec <= 59
    /\ us >= 0 /\ us <= 999999

\* float(text) of a text of at most two characters: whole seconds, "d." or
\* ".d"; tenths is the fractional digit
py_float(text) ==
    LET s == strip(text)
        i == py_int(s)
    IN  IF i.ok THEN [ok |-> TRUE, whole |-> i.val, tenths |-> 0]
        ELSE IF Len(s) = 2 /\ IsDigit(s[1]) /\ s[2] = "."
             THEN [ok |-> TRUE, whole |-> DigitVal(s[1]), tenths |-> 0]
        ELSE IF Len(s) = 2 /\ s[1] = "." /\ IsDigit(s[2])
             THEN [ok |-> TRUE, whole |-> 0, tenths |-> DigitVal(s[2])]
        ELSE [ok |-> FALSE, whole |-> 0, tenths |-> 0]

\* 1 / x of numpy floats: a reciprocal is kept symbolic, 1 / nan is nan
Recip(x) == IF IsNum(x) THEN [recip |-> x.num] ELSE NaN

\* ------------------------------------------------------------------------
\* _check_assign and the header mapper _get_header_info
\* ------------------------------------------------------------------------
_check_assign(value, unknown, default) ==
    IF value # Num(unknown) THEN value ELSE default

\* A fixed column range of a text header line; a line that lacks the range
\* gives the empty text
Slice(line, cols) == IF cols \in DOMAIN line THEN line[cols] ELSE << >>

\* unknown = int(lines[12][64:71]), -999 on ValueError
header_unknown(lines) ==
    LET r == py_int(Slice(At(lines, 12), "c64_71"))
    IN  IF r.ok THEN r.val ELSE 0 - 999

header_network_exact_case(int_data, lines) ==
    LET network_num == At(int_data, 10)
    IN  IF IsNum(network_num) /\ network_num.num \in DOMAIN COSMOS_NETWORKS
        THEN LET entry == COSMOS_NETWORKS[network_num.num]
             IN  [network |-> IF entry[1] = << >> THEN entry[3] ELSE entry[1],
                  source |-> entry[2]]
        ELSE LET network_code == Slice(At(lines, 4), "c25_27")
             IN  IF \E i \in 1..Len(CODES) : CODES[i] = network_code
                 THEN LET idx == CHOOSE i \in 1..Len(CODES) :
                                     CODES[i] = network_code
                      IN  [network |-> network_code,
                           source |-> SOURCES1[idx] \o <<", ">> \o SOURCES2[idx]]
                 ELSE [network |-> <<"Z", "Z">>, source |-> << >>]

header_network(int_data, lines) ==
    LET network_num == At(int_data, 10)
    IN  IF IsNum(network_num) /\ network_num.num \in DOMAIN COSMOS_NETWORKS
        THEN LET entry == COSMOS_NETWORKS[network_num.num]
             IN  [network |-> IF entry[1] = << >> THEN entry[3] ELSE entry[1],
                  source |-> entry[2]]
        ELSE LET network_code == upper(Slice(At(lines, 4), "c25_27"))
             IN  IF \E i \in 1..Len(CODES) : CODES[i] = network_code
                 THEN LET idx == CHOOSE i \in 1..Len(CODES) :
                                     /\ CODES[i] = network_code
                                     /\ \A j \in 1..(i - 1) :
                                            CODES[j] # network_code
                      IN  [network |-> network_code,
                           source |-> SOURCES1[idx] \o <<", ">> \o SOURCES2[idx]]
                 ELSE [network |-> <<"Z", "Z">>, source |-> << >>]

\* hdr['delta'] and hdr['sampling_rate'] are assigned only for a reported delta
header_delta(flt_data, unknown) ==
    LET delta == At(flt_data, 33)
    IN  IF delta # Num(unknown)
        THEN [delta |-> delta, sampling_rate |-> Recip(delta)]
        ELSE [delta |-> Unset, sampling_rate |-> Unset]

VerticalLabels == {<<"U","P">>, <<"D","O","W","N">>, <<"V","E","R","T">>}

is_north_azimuth_inclusive(horizontal_angle) ==
    \/ horizontal_angle >= 315
    \/ horizontal_angle <= 45
    \/ (horizontal_angle >= 135 /\ horizontal_angle <= 225)

\* The test that buckets an azimuth with north
is_north_azimuth(horizontal_angle) ==
    \/ horizontal_angle > 315
    \/ horizontal_angle < 45
    \/ (horizontal_angle > 135 /\ horizontal_angle < 225)

\* The channel code of a reported orientation value, or the exception raised
\* on the way: hdr['sampling_rate'] is a KeyError when it was not assigned,
\* hdr['channel'] = channel an UnboundLocalError when no branch assigned it
channel_of_angle(horizontal_angle, sampling_rate) ==
    IF horizontal_angle \in DOMAIN COSMOS_ORIENTATIONS
    THEN LET channel == upper(COSMOS_ORIENTATIONS[horizontal_angle][2])
         IN  IF channel \in VerticalLabels
             THEN IF sampling_rate = Unset
                  THEN [err |-> "KeyError", channel |-> Unset]
                  ELSE [err |-> "none",
                        channel |-> get_channel_name(sampling_rate,
                                                     TRUE, TRUE, FALSE)]
             ELSE [err |-> "none", channel |-> Str(channel)]
    ELSE IF horizontal_angle >= 0 /\ horizontal_angle <= 360
    THEN IF sampling_rate = Unset
         THEN [err |-> "KeyError", channel |-> Unset]
         ELSE IF is_north_azimuth(horizontal_angle)
              THEN [err |-> "none",
                    channel |-> get_channel_name(sampling_rate,
                                                 TRUE, FALSE, TRUE)]
              ELSE [err |-> "none",
                    channel |-> get_channel_name(sampling_rate,
                                                 TRUE, FALSE, FALSE)]
    ELSE [err |-> "UnboundLocalError", channel |-> Unset]

header_channel_lenient(horizontal_angle, unknown, sampling_rate) ==
    channel_of_angle(horizontal_angle, sampling_rate)

\* The channel code, or the missing-orientation GMProcessException
header_channel(horizontal_angle, unknown, sampling_rate) ==
    IF horizontal_angle # unknown
    THEN channel_of_angle(horizontal_angle, sampling_rate)
    ELSE [err |-> "orientation", channel |-> Unset]

header_location_no_fill(int_data, unknown, location) ==
    IF location = << >>
    THEN LET loc == _check_assign(At(int_data, 55), unknown, Str(<<"-", "-">>))
         IN  IF IsNum(loc) THEN py_str(loc.num) ELSE loc.str
    ELSE location

header_location(int_data, unknown, location) ==
    IF location = << >>
    THEN LET loc == _check_assign(At(int_data, 55), unknown, Str(<<"-", "-">>))
             text == IF IsNum(loc) THEN py_str(loc.num) ELSE loc.str
         IN  IF Len(text) < 2 THEN zfill(text, 2) ELSE text
    ELSE location

header_starttime_unchecked(int_data, flt_data, unknown) ==
    [err |-> "none",
     starttime |-> <<At(int_data, 39).num, At(int_data, 41).num,
                     At(int_data, 42).num, At(int_data, 43).num,
                     At(int_data, 44).num, 0, 0>>]

\* hdr['starttime'], or the exception raised while building it
header_starttime(int_data, flt_data, unknown) ==
    LET year == At(int_data, 39).num
        month == At(int_data, 41).num
        day == At(int_data, 42).num
        hour == At(int_data, 43).num
        minute == At(int_data, 44).num
        second == At(flt_data, 29)
    IN  IF second = Num(unknown)
        THEN IF valid_datetime(year, month, day, hour, minute, 0, 0)
             THEN [err |-> "none",
                   starttime |-> <<year, month, day, hour, minute, 0, 0>>]
             ELSE [err |-> "starttime", starttime |-> Unset]
        ELSE IF ~IsNum(second)
        THEN [err |-> "ValueError", starttime |-> Unset]
        ELSE LET microsecond == (second.num - second.num) * 1000000
             IN  IF valid_datetime(year, month, day, hour, minute,
                                   second.num, microsecond)
                 THEN [err |-> "none",
                       starttime |-> <<year, month, day, hour, minute,
                                       second.num, microsecond>>]
                 ELSE [err |-> "starttime", starttime |-> Unset]

\* The process time when an impossible calendar date raises nothing
header_process_time_unvalidated(process_line) ==
    IF contains(process_line, <<"-">>) \/ contains(process_line, <<"/">>)
    THEN LET delimeter == IF contains(process_line, <<"-">>) THEN "-" ELSE "/"
             date == split(process_line, delimeter)
             time == split(process_line, ":")
         IN  IF Len(date) < 3 \/ Len(time) < 3
             THEN << >>
             ELSE LET month == py_int(last_chars(date[1], 2))
                      day == py_int(date[2])
                      year == py_int(first_chars(date[3], 4))
                      hour == py_int(last_chars(time[1], 2))
                      minute == py_int(time[2])
                      second == py_float(first_chars(time[3], 2))
                  IN  IF /\ month.ok /\ day.ok /\ year.ok
                         /\ hour.ok /\ minute.ok /\ second.ok
                      THEN <<"TIMEFMT", year.val, month.val, day.val,
                             hour.val, minute.val, second.whole>>
                      ELSE << >>
    ELSE << >>

\* standard['process_time']: the formatted time, '' on any exception
header_process_time(process_line) ==
    IF contains(process_line, <<"-">>) \/ contains(process_line, <<"/">>)
    THEN LET delimeter == IF contains(process_line, <<"-">>) THEN "-" ELSE "/"
             date == split(process_line, delimeter)
             time == split(process_line, ":")
         IN  IF Len(date) < 3 \/ Len(time) < 3
             THEN << >>
             ELSE LET month == py_int(last_chars(date[1], 2))
                      day == py_int(date[2])
                      year == py_int(first_chars(date[3], 4))
                      hour == py_int(last_chars(time[1], 2))
                      minute == py_int(time[2])
                      second == py_float(first_chars(time[3], 2))
                  IN  IF /\ month.ok /\ day.ok /\ year.ok
                         /\ hour.ok /\ minute.ok /\ second.ok
                         /\ valid_datetime(year.val, month.val, day.val,
                                           hour.val, minute.val, second.whole,
                                           second.tenths * 100000)
                      THEN <<"TIMEFMT", year.val, month.val, day.val,
                             hour.val, minute.val, second.whole>>
                      ELSE << >>
    ELSE << >>

header_process_level(process_level) ==
    IF process_level = 0 THEN PROCESS_LEVELS("V0")
    ELSE IF process_level = 1 THEN PROCESS_LEVELS("V1")
    ELSE IF process_level = 2 THEN PROCESS_LEVELS("V2")
    ELSE IF process_level = 3 THEN PROCESS_LEVELS("V3")
    ELSE PROCESS_LEVELS("V1")

header_units(units, physical_parameter, unknown) ==
    IF units # unknown /\ units \in DOMAIN UNITS
    THEN Str(UNITS[units])
    ELSE IF physical_parameter \in {2, 4, 7, 10, 11, 12, 23} THEN Str(<<"acc">>)
    ELSE IF physical_parameter \in {5, 8, 24} THEN Str(<<"vel">>)
    ELSE IF physical_parameter \in {6, 9, 25} THEN Str(<<"disp">>)
    ELSE Unset

header_record_flag(record_flag) ==
    IF record_flag = 0 THEN Str(<<"No problem">>)
    ELSE IF record_flag = 1 THEN Str(<<"Fixed">>)
    ELSE IF record_flag = 2 THEN Str(<<"Unfixed problem">>)
    ELSE Str(<< >>)

header_filter_type(filter_type) ==
    IF filter_type \in DOMAIN FILTERS THEN Str(FILTERS[filter_type])
    ELSE Str(<< >>)

\* The metadata dictionary built when no exception is raised
header_dict(int_data, flt_data, lines, cmt_data, location, unknown) ==
    LET net == header_network(int_data, lines)
        dl == header_delta(flt_data, unknown)
        horizontal_angle == At(int_data, 53).num
        duration == At(flt_data, 34)
        serial == At(int_data, 52)
        instrument == At(int_data, 51).num
        structure_type == At(int_data, 18)
        physical_parameter == At(int_data, 2).num
        coord(v) == IF v = Num(unknown) THEN NaN ELSE v
    IN  [network |-> Str(net.network),
         station |-> Str(strip(Slice(At(lines, 4), "c28_34"))),
         delta |-> dl.delta,
         sampling_rate |-> dl.sampling_rate,
         channel |-> header_channel(horizontal_angle, unknown,
                                    dl.sampling_rate).channel,
         location |-> Str(header_location(int_data, unknown, location)),
         starttime |-> header_starttime(int_data, flt_data, unknown).starttime,
         duration |-> IF duration # Num(unknown) THEN duration ELSE Unset,
         npts |-> At(int_data, 69),
         coordinates |->
            [latitude |-> coord(At(flt_data, 0)),
             longitude |-> coord(At(flt_data, 1)),
             elevation |-> coord(At(flt_data, 2))],
         standard |->
            [source |-> Str(net.source),
             horizontal_orientation |-> Num(horizontal_angle),
             station_name |-> Str(strip(Slice(At(lines, 4), "c40_m1"))),
             instrument_period |->
                Recip(_check_assign(At(flt_data, 39), unknown, NaN)),
             instrument_damping |->
                _check_assign(At(flt_data, 40), unknown, NaN),
             process_time |->
                Str(header_process_time(Slice(At(lines, 10), "c10_40"))),
             process_level |-> header_process_level(At(int_data, 0).num),
             sensor_serial_number |->
                IF serial # Num(unknown)
                THEN Str(py_str(_check_assign(serial, unknown, Str(<< >>)).num))
                ELSE Str(<< >>),
             instrument |->
                IF instrument # unknown /\ instrument \in DOMAIN SENSOR_TYPES
                THEN Str(SENSOR_TYPES[instrument])
                ELSE Str(strip(Slice(At(lines, 6), "c57_m1"))),
             structure_type |->
                IF /\ structure_type # Num(unknown)
                   /\ structure_type.num \in DOMAIN BUILDING_TYPES
                THEN Str(BUILDING_TYPES[structure_type.num])
                ELSE Str(<< >>),
             corner_frequency |-> _check_assign(At(flt_data, 25), unknown, NaN),
             units |-> header_units(At(int_data, 1).num, physical_parameter,
                                    unknown),
             source_format |-> Str(<<"cosmos">>),
             comments |-> Str(join(<<", ">>, cmt_data))],
         format_specific |->
            [physical_units |->
                IF physical_parameter \in DOMAIN PHYSICAL_UNITS
                THEN Str(PHYSICAL_UNITS[physical_parameter])
                ELSE Num(physical_parameter),
             v30 |-> _check_assign(At(flt_data, 3), unknown, NaN),
             least_significant_bit |->
                _check_assign(At(flt_data, 21), unknown, NaN),
             low_filter_type |-> header_filter_type(At(int_data, 60).num),
             low_filter_corner |-> _check_assign(At(flt_data, 53), unknown, NaN),
             low_filter_decay |-> _check_assign(At(flt_data, 54), unknown, NaN),
             high_filter_type |-> header_filter_type(At(int_data, 61).num),
             high_filter_corner |-> _check_assign(At(flt_data, 56), unknown, NaN),
             high_filter_decay |-> _check_assign(At(flt_data, 57), unknown, NaN),
             maximum |-> _check_assign(At(flt_data, 63), unknown, NaN),
             maximum_time |-> _check_assign(At(flt_data, 64), unknown, NaN),
             station_code |-> _check_assign(structure_type, unknown, NaN),
             record_flag |-> header_record_flag(At(int_data, 75).num),
             scaling_factor |-> _check_assign(At(flt_data, 87), unknown, NaN),
             sensor_sensitivity |->
                _check_assign(At(flt_data, 41), unknown, NaN)]]

\* _get_header_info: [err |-> "none", hdr |-> the dictionary], or the first
\* exception in statement order (the channel code, then the start time).  An
\* array too short for the indexes read raises IndexError.
_get_header_info(int_data, flt_data, lines, cmt_data, location) ==
    IF Len(int_data) < 76 \/ Len(flt_data) < 88 \/ Len(lines) < 13
    THEN [err |-> "IndexError", hdr |-> Unset]
    ELSE LET unknown == header_unknown(lines)
             dl == header_delta(flt_data, unknown)
             ch == header_channel(At(int_data, 53).num, unknown,
                                  dl.sampling_rate)
             st == header_starttime(int_data, flt_data, unknown)
         IN  IF ch.err # "none" THEN [err |-> ch.err, hdr |-> Unset]
             ELSE IF st.err # "none" THEN [err |-> st.err, hdr |-> Unset]
             ELSE [err |-> "none",
                   hdr |-> header_dict(int_data, flt_data, lines, cmt_data,
                                       location, unknown)]

\* ------------------------------------------------------------------------
\* The file: a sequence of lines.  A line is a record with a kind:
\*   "text"  a text header line, with the column ranges the mapper slices
\*   "desc"  a section descriptor: first token npts, whether it contains the
\*           word comment, and the numbers found after "format=" (cols, width)
\*   "row"   a row of fixed-width numeric fields, vals in column order
\*   "cmt"   a comment line
\*   "eor"   the end-of-record line
\* ------------------------------------------------------------------------
Min(a, b) == IF a < b THEN a ELSE b

CeilDiv(n, d) == (n + d - 1) \div d

ceil_rows_floor(npts, cols) == npts \div cols

\* num_lines = int(np.ceil(npts / cols))
ceil_rows(npts, cols) == (npts + cols - 1) \div cols

\* One line sliced by delimiter=widths: always cols fields, a field beyond
\* the text of the line (or not a number) is nan
row_fields(line, cols) ==
    [j \in 1..cols |->
        IF line.kind = "row" /\ j <= Len(line.vals) THEN line.vals[j] ELSE NaN]

\* The raw text of a line as readlines() gives it
raw_line(line) == IF "text" \in DOMAIN line THEN line.text ELSE <<line.kind>>

\* np.genfromtxt(filename, skip_header=skip_rows, max_rows=num_lines,
\*               delimiter=widths).flatten()
genfromtxt_flatten(file, skip_rows, num_lines, cols) ==
    LET avail == IF Len(file) > skip_rows THEN Len(file) - skip_rows ELSE 0
        got == Min(num_lines, avail)
    IN  [k \in 1..(got * cols) |->
            row_fields(file[skip_rows + 1 + ((k - 1) \div cols)], cols)
                      [((k - 1) % cols) + 1]]

\* _read_lines(skip_rows, filename): the descriptor is the line before
\* skip_rows; returns num_lines and the payload, or the exception raised
\* (genfromtxt rejects max_rows < 1 with a ValueError)
_read_lines(skip_rows, file) ==
    IF skip_rows < 1 \/ skip_rows > Len(file)
    THEN [err |-> "IndexError", num_lines |-> 0, data_arr |-> << >>]
    ELSE LET header == file[skip_rows]
         IN  IF header.kind # "desc"
             THEN [err |-> "ValueError", num_lines |-> 0, data_arr |-> << >>]
             ELSE LET npts == header.npts
                  IN  IF header.comment
                      THEN IF skip_rows + npts > Len(file)
                           THEN [err |-> "IndexError", num_lines |-> 0,
                                 data_arr |-> << >>]
                           ELSE [err |-> "none", num_lines |-> npts,
                                 data_arr |->
                                    [i \in 1..npts |->
                                        raw_line(file[skip_rows + i])]]
                      ELSE IF Len(header.format_data) < 2
                           THEN [err |-> "IndexError", num_lines |-> 0,
                                 data_arr |-> << >>]
                           ELSE LET cols == header.format_data[1]
                                    num_lines == ceil_rows(npts, cols)
                                IN  IF cols < 1
                                    THEN [err |-> "ZeroDivisionError",
                                          num_lines |-> 0, data_arr |-> << >>]
                                    ELSE IF num_lines < 1
                                    THEN [err |-> "ValueError",
                                          num_lines |-> 0, data_arr |-> << >>]
                                    ELSE [err |-> "none",
                                          num_lines |-> num_lines,
                                          data_arr |->
                                             genfromtxt_flatten(
                                                file, skip_rows,
                                                num_lines, cols)]

\* int_data.astype(np.int32): a nan has no int32 value; x86 builds give the
\* smallest int32
astype_int32(arr) ==
    [i \in 1..Len(arr) |->
        IF IsNum(arr[i]) THEN arr[i] ELSE Num(0 - 2147483647 - 1)]

\* ------------------------------------------------------------------------
\* Input files.  A block is described by the values its writer put in it:
\*   unknown_text, network_code, instrument_text, process_line   header text
\*   unknown        the "not reported" value the writer used in the arrays
\*   ints, flts     the header values that differ from the baseline, by index
\*   flt_cols       columns of the float header section
\*   cmts           the comment lines
\*   cmt_count      the number of comment lines the descriptor declares
\*   samples, smp_cols   the samples and the columns they are written in
\* ------------------------------------------------------------------------
\* Values in each header array of a block
NumHeaderValues == 100

\* Longest sample section and comment section drawn
MaxSamples == 3

\* Most blocks in a file
MaxBlocks == 2

\* Most _read_channel calls followed in one run
MaxCalls == 4

BaseInt(i) ==
    CASE i = 0 -> 1        \* process level
      [] i = 1 -> 1        \* units
      [] i = 2 -> 4        \* physical parameter
      [] i = 10 -> 2       \* network
      [] i = 18 -> 10      \* station type
      [] i = 39 -> 2019
      [] i = 41 -> 7
      [] i = 42 -> 6
      [] i = 43 -> 3
      [] i = 44 -> 19
      [] i = 51 -> 4       \* instrument
      [] i = 52 -> 1234    \* serial number
      [] i = 53 -> 90      \* horizontal orientation
      [] i = 55 -> 1       \* location
      [] i = 60 -> 5
      [] i = 61 -> 5
      [] OTHER -> 0

BaseFlt(i) ==
    CASE i = 0 -> 34
      [] i = 1 -> 0 - 118
      [] i = 2 -> 250
      [] i = 29 -> 53      \* seconds
      [] i = 33 -> 1       \* sample interval
      [] i = 34 -> 60      \* duration
      [] OTHER -> 7

IntArray(over) ==
    [k \in 1..NumHeaderValues |->
        Num(IF (k - 1) \in DOMAIN over THEN over[k - 1] ELSE BaseInt(k - 1))]

FltArray(over) ==
    [k \in 1..NumHeaderValues |->
        Num(IF (k - 1) \in DOMAIN over THEN over[k - 1] ELSE BaseFlt(k - 1))]

\* The 13 text lines of a block
TextLines(b) ==
    [k \in 1..(TEXT_HDR_ROWS - 1) |->
        CASE k - 1 = 4 ->
                [kind |-> "text", text |-> <<"text line", k - 1>>,
                 c25_27 |-> b.network_code,
                 c28_34 |-> <<"S","T","A"," "," "," ">>,
                 c40_m1 |-> <<" ", "Station name", " ">>]
          [] k - 1 = 6 ->
                [kind |-> "text", text |-> <<"text line", k - 1>>,
                 c57_m1 |-> b.instrument_text]
          [] k - 1 = 10 ->
                [kind |-> "text", text |-> <<"text line", k - 1>>,
                 c10_40 |-> b.process_line]
          [] k - 1 = 12 ->
                [kind |-> "text", text |-> <<"text line", k - 1>>,
                 c64_71 |-> b.unknown_text]
          [] OTHER -> [kind |-> "text", text |-> <<"text line", k - 1>>]]

Descriptor(npts, format_data) ==
    [kind |-> "desc", npts |-> npts, comment |-> FALSE,
     format_data |-> format_data]

CommentDescriptor(npts) ==
    [kind |-> "desc", npts |-> npts, comment |-> TRUE, format_data |-> << >>]

\* arr written cols values to a row; the last row holds what is left
DataRows(arr, cols) ==
    [r \in 1..CeilDiv(Len(arr), cols) |->
        [kind |-> "row",
         vals |-> SubSeq(arr, (r - 1) * cols + 1, Min(r * cols, Len(arr)))]]

CommentLines(cmts) ==
    [i \in 1..Len(cmts) |-> [kind |-> "cmt", text |-> cmts[i]]]

BlockLines(b) ==
    TextLines(b)
    \o <<Descriptor(NumHeaderValues, <<10, 8>>)>>
    \o DataRows(IntArray(b.ints), 10)
    \o <<Descriptor(NumHeaderValues, <<b.flt_cols, 13, 6>>)>>
    \o DataRows(FltArray(b.flts), b.flt_cols)
    \o <<CommentDescriptor(b.cmt_count)>>
    \o CommentLines(b.cmts)
    \o <<Descriptor(Len(b.samples), <<b.smp_cols, 10, 5>>)>>
    \o DataRows(b.samples, b.smp_cols)
    \o <<[kind |-> "eor"]>>

RECURSIVE FileLines(_)
FileLines(bs) ==
    IF Len(bs) = 0 THEN << >> ELSE BlockLines(bs[1]) \o FileLines(Tail(bs))

\* Override maps
NoOver == [i \in {} |-> 0]

Over1(i, v) == [j \in {i} |-> v]

Merge(f, g) ==
    [j \in (DOMAIN f) \cup (DOMAIN g) |-> IF j \in DOMAIN f THEN f[j] ELSE g[j]]

BaseBlock ==
    [unknown_text |-> <<"-","9","9","9">>, unknown |-> 0 - 999,
     network_code |-> <<"A","K">>,
     instrument_text |-> <<"FBA-23">>,
     process_line |-> <<" ">>,
     ints |-> NoOver, flts |-> NoOver,
     flt_cols |-> 6,
     cmts |-> << >>, cmt_count |-> 0,
     samples |-> <<Num(11), Num(12)>>, smp_cols |-> 2]

\* ------------------------------------------------------------------------
\* State
\* ------------------------------------------------------------------------
VARIABLES
    file,                 \* the lines of the file being read
    blocks,               \* what the writer of the file put in each block
    valid_station_types,  \* read_cosmos kwarg: None or the allow-list
    location,             \* read_cosmos kwarg: '' or the override
    pc,                   \* position in the code
    line_count,           \* read_cosmos: number of lines counted
    line_offset,          \* read_cosmos: offset of the next block
    stream,               \* read_cosmos: the traces stored so far
    lines,                \* _read_channel: the TEXT_HDR_ROWS header lines
    skiprows,             \* _read_channel: running row offset
    int_data,             \* _read_channel: integer header array
    flt_data,             \* _read_channel: float header array
    cmt_data,             \* _read_channel: comment lines
    hdr,                  \* _read_channel: result of _get_header_info
    sect,                 \* result of the last _read_lines call
    err,                  \* the exception that ended the run, "none" otherwise
    calls,                \* history: (offset passed, offset returned) per
                          \* _read_channel call, offset returned -1 while running
    probe,                \* is_cosmos: the file probed
    detected,             \* is_cosmos: the value returned
    run,                  \* which call of read_cosmos on the file this is
    first,                \* history: what the first call ended with
    st,                   \* ridder_fchp: the stream
    fchp,                 \* ridder_fchp: what get_fchp returns per trace
    options,              \* getMatchingEvents: the catalogue entries
    events                \* getMatchingEvents: the list returned

vars == <<file, blocks, valid_station_types, location, pc, line_count,
          line_offset,
          stream, lines, skiprows, int_data, flt_data, cmt_data, hdr, sect,
          err, calls, probe, detected,
                   run, first, st, fchp, options, events>>

None == [none |-> TRUE]

NoSect == [err |-> "none", num_lines |-> 0, data_arr |-> << >>]

NoProbe == [line |-> << >>, line_decodes |-> TRUE, chunk_decodes |-> TRUE]

\* ------------------------------------------------------------------------
\* read_cosmos and _read_channel, one action per step
\* ------------------------------------------------------------------------
Fail(e) ==
    /\ pc' = "failed"
    /\ err' = e

StationStream_shared(traces) == stream \o traces

\* StationStream([]): a new stream holding the traces given
StationStream(traces) == traces

\* with open(filename) as f: line_count = sum(1 for _ in f);
\* line_offset = 0; stream = StationStream([])
CountLines ==
    /\ pc = "start"
    /\ line_count' = Len(file)
    /\ line_offset' = 0
    /\ stream' = StationStream(<< >>)
    /\ pc' = "loop"
    /\ UNCHANGED <<file, blocks, valid_station_types, location, lines, skiprows,
                   int_data, flt_data, cmt_data, hdr, sect, err, calls,
                   probe, detected,
                   run, first, st, fchp, options, events>>

\* while line_offset < line_count: call _read_channel(filename, line_offset)
EnterBlock ==
    /\ pc = "loop"
    /\ line_offset < line_count
    /\ Len(calls) < MaxCalls
    /\ calls' = Append(calls, <<line_offset, 0 - 1>>)
    /\ pc' = "text"
    /\ UNCHANGED <<file, blocks, valid_station_types, location, line_count,
                   line_offset, stream, lines, skiprows, int_data, flt_data,
                   cmt_data, hdr, sect, err, probe, detected,
                   run, first, st, fchp, options, events>>

\* return [stream]
ReturnStream ==
    /\ pc = "loop"
    /\ ~(line_offset < line_count)
    /\ pc' = "done"
    /\ UNCHANGED <<file, blocks, valid_station_types, location, line_count,
                   line_offset, stream, lines, skiprows, int_data, flt_data,
                   cmt_data, hdr, sect, err, calls, probe, detected,
                   run, first, st, fchp, options, events>>

\* lines = [next(f) for x in range(TEXT_HDR_ROWS)] after skipping line_offset
\* lines; skiprows = line_offset + TEXT_HDR_ROWS
ReadTextHeader ==
    /\ pc = "text"
    /\ IF line_offset + TEXT_HDR_ROWS > Len(file)
       THEN Fail("StopIteration") /\ UNCHANGED <<lines, skiprows>>
       ELSE /\ lines' = SubSeq(file, line_offset + 1,
                               line_offset + TEXT_HDR_ROWS)
            /\ skiprows' = line_offset + TEXT_HDR_ROWS
            /\ pc' = "int"
            /\ err' = err
    /\ UNCHANGED <<file, blocks, valid_station_types, location, line_count,
                   line_offset, stream, int_data, flt_data, cmt_data, hdr,
                   sect, calls, probe, detected,
                   run, first, st, fchp, options, events>>

\* int_lines, int_data = _read_lines(skiprows, filename);
\* int_data = int_data.astype(np.int32); skiprows += int_lines + 1
ReadIntHeader ==
    /\ pc = "int"
    /\ LET r == _read_lines(skiprows, file)
       IN  /\ sect' = r
           /\ IF r.err # "none"
              THEN Fail(r.err) /\ UNCHANGED <<int_data, skiprows>>
              ELSE /\ int_data' = astype_int32(r.data_arr)
                   /\ skiprows' = skiprows + r.num_lines + 1
                   /\ pc' = "flt"
                   /\ err' = err
    /\ UNCHANGED <<file, blocks, valid_station_types, location, line_count,
                   line_offset, stream, lines, flt_data, cmt_data, hdr,
                   calls, probe, detected,
                   run, first, st, fchp, options, events>>

\* flt_lines, flt_data = _read_lines(skiprows, filename);
\* skiprows += flt_lines + 1
ReadFloatHeader ==
    /\ pc = "flt"
    /\ LET r == _read_lines(skiprows, file)
       IN  /\ sect' = r
           /\ IF r.err # "none"
              THEN Fail(r.err) /\ UNCHANGED <<flt_data, skiprows>>
              ELSE /\ flt_data' = r.data_arr
                   /\ skiprows' = skiprows + r.num_lines + 1
                   /\ pc' = "cmt"
                   /\ err' = err
    /\ UNCHANGED <<file, blocks, valid_station_types, location, line_count,
                   line_offset, stream, lines, int_data, cmt_data, hdr,
                   calls, probe, detected,
                   run, first, st, fchp, options, events>>

\* cmt_lines, cmt_data = _read_lines(skiprows, filename);
\* skiprows += cmt_lines + 1
ReadComments ==
    /\ pc = "cmt"
    /\ LET r == _read_lines(skiprows, file)
       IN  /\ sect' = r
           /\ IF r.err # "none"
              THEN Fail(r.err) /\ UNCHANGED <<cmt_data, skiprows>>
              ELSE /\ cmt_data' = r.data_arr
                   /\ skiprows' = skiprows + r.num_lines + 1
                   /\ pc' = "map"
                   /\ err' = err
    /\ UNCHANGED <<file, blocks, valid_station_types, location, line_count,
                   line_offset, stream, lines, int_data, flt_data, hdr,
                   calls, probe, detected,
                   run, first, st, fchp, options, events>>

\* hdr = _get_header_info(int_data, flt_data, lines, cmt_data, location)
MapHeader ==
    /\ pc = "map"
    /\ LET r == _get_header_info(int_data, flt_data, lines, cmt_data, location)
       IN  /\ hdr' = r
           /\ IF r.err # "none"
              THEN Fail(r.err)
              ELSE pc' = "smp" /\ err' = err
    /\ UNCHANGED <<file, blocks, valid_station_types, location, line_count,
                   line_offset, stream, lines, skiprows, int_data, flt_data,
                   cmt_data, sect, calls, probe, detected,
                   run, first, st, fchp, options, events>>

\* nrows, data = _read_lines(skiprows, filename)
ReadSamples ==
    /\ pc = "smp"
    /\ LET r == _read_lines(skiprows, file)
       IN  /\ sect' = r
           /\ IF r.err # "none"
              THEN Fail(r.err)
              ELSE pc' = "adv" /\ err' = err
    /\ UNCHANGED <<file, blocks, valid_station_types, location, line_count,
                   line_offset, stream, lines, skiprows, int_data, flt_data,
                   cmt_data, hdr, calls, probe, detected,
                   run, first, st, fchp, options, events>>

\* The trace _read_channel builds: StationTrace(data.copy(), Stats(hdr.copy()))
\* with the remove_response provenance unless the process level is V0
new_trace ==
    [stats |-> hdr.hdr,
     data |-> sect.data_arr,
     provenance |->
        IF hdr.hdr.standard.process_level # PROCESS_LEVELS("V0")
        THEN <<"remove_response">> ELSE << >>]

next_offset_no_eor(rows, nrows) == rows + nrows

\* new_offset = skiprows + nrows; new_offset += 1
next_offset(rows, nrows) == rows + nrows + 1

keep_trace_always(station_code, allow) == TRUE

\* read_cosmos: whether the trace is appended to the stream
keep_trace(station_code, allow) ==
    IF allow # None
    THEN IsNum(station_code) /\ station_code.num \in allow.list
    ELSE TRUE

\* return (trace, new_offset) and, back in read_cosmos, the filter on the
\* station type
AdvanceAndStore ==
    /\ pc = "adv"
    /\ LET new_offset == next_offset(skiprows, sect.num_lines)
           station_code == new_trace.stats.format_specific.station_code
       IN  /\ line_offset' = new_offset
           /\ calls' = [calls EXCEPT ![Len(calls)][2] = new_offset]
           /\ stream' =
                IF keep_trace(station_code, valid_station_types)
                THEN Append(stream, new_trace)
                ELSE stream
    /\ pc' = "loop"
    /\ UNCHANGED <<file, blocks, valid_station_types, location, line_count, lines,
                   skiprows, int_data, flt_data, cmt_data, hdr, sect, err,
                   probe, detected,
                   run, first, st, fchp, options, events>>

\* ------------------------------------------------------------------------
\* Spec: read_cosmos on files of 1..MaxBlocks blocks
\* ------------------------------------------------------------------------
SampleSeq(n) == [i \in 1..n |-> Num(10 + i)]

\* The layout written for a station type:
\* (float columns, comment lines, samples, sample columns)
Layout(station_type) ==
    IF station_type = 10
    THEN <<6, << >>, SampleSeq(1), 2>>
    ELSE <<5, << <<"| first comment">> >>, SampleSeq(MaxSamples), 2>>

\* Header conditions: all reported and valid; month 13; orientation not
\* reported; both; orientation and sample interval not reported
Conditions ==
    { [ints |-> NoOver, flts |-> NoOver],
      [ints |-> Over1(41, 13), flts |-> NoOver],
      [ints |-> Over1(53, 0 - 999), flts |-> NoOver],
      [ints |-> Merge(Over1(41, 13), Over1(53, 0 - 999)), flts |-> NoOver],
      [ints |-> Over1(53, 0 - 999), flts |-> Over1(33, 0 - 999)] }

ScanBlock(station_type, c) ==
    [BaseBlock EXCEPT
        !.ints = Merge(Over1(18, station_type), c.ints),
        !.flts = c.flts,
        !.flt_cols = Layout(station_type)[1], !.cmts = Layout(station_type)[2],
        !.cmt_count = Len(Layout(station_type)[2]),
        !.samples = Layout(station_type)[3], !.smp_cols = Layout(station_type)[4]]

\* Blocks of station types 10 and 20 under each header condition, and a
\* sound block of station type 11
ScanBlocks ==
    { ScanBlock(station_type, c) : station_type \in {10, 20}, c \in Conditions }
    \cup { ScanBlock(11, [ints |-> NoOver, flts |-> NoOver]) }

Init ==
    /\ \E n \in 1..MaxBlocks :
         \E bs \in [1..n -> ScanBlocks] :
            /\ blocks = bs
            /\ file = FileLines(bs)
    /\ valid_station_types \in {None, [list |-> {10, 11}]}
    /\ location \in {<< >>, <<"1", "0">>}
    /\ pc = "start"
    /\ line_count = 0
    /\ line_offset = 0
    /\ stream = << >>
    /\ lines = << >>
    /\ skiprows = 0
    /\ int_data = << >>
    /\ flt_data = << >>
    /\ cmt_data = << >>
    /\ hdr = [err |-> "none", hdr |-> Unset]
    /\ sect = NoSect
    /\ err = "none"
    /\ calls = << >>
    /\ probe = NoProbe
    /\ detected = FALSE
    /\ run = 1
    /\ first = None
    /\ st = None
    /\ fchp = << >>
    /\ options = << >>
    /\ events = << >>

Next ==
    \/ CountLines
    \/ EnterBlock
    \/ ReturnStream
    \/ ReadTextHeader
    \/ ReadIntHeader
    \/ ReadFloatHeader
    \/ ReadComments
    \/ MapHeader
    \/ ReadSamples
    \/ AdvanceAndStore

Spec == Init /\ [][Next]_vars

\* ------------------------------------------------------------------------
\* What the writer put in the file (never read by the actions above)
\* ------------------------------------------------------------------------
IntOf(b, i) == IF i \in DOMAIN b.ints THEN b.ints[i] ELSE BaseInt(i)

FltOf(b, i) == IF i \in DOMAIN b.flts THEN b.flts[i] ELSE BaseFlt(i)

OrientationMissing(b) == IntOf(b, 53) = b.unknown

BadDate(b) == IntOf(b, 41) \notin 1..12

Sound(b) == ~OrientationMissing(b) /\ ~BadDate(b)

RECURSIVE BlockStart(_)
\* Line offset at which block k of the file starts (k = Len(blocks) + 1: the
\* end of the file)
BlockStart(k) ==
    IF k <= 1 THEN 0 ELSE BlockStart(k - 1) + Len(BlockLines(blocks[k - 1]))

\* The index of the block being read, 0 before the first call
Current == Len(calls)

\* Record tr is the record of block b: its station type and its samples
RecordOf(tr, b) ==
    /\ tr.stats.format_specific.station_code = Num(IntOf(b, 18))
    /\ Len(tr.data) >= Len(b.samples)
    /\ SubSeq(tr.data, 1, Len(b.samples)) = b.samples

Allowed(b) ==
    valid_station_types = None \/ IntOf(b, 18) \in valid_station_types.list

RECURSIVE AllowedUpTo(_)
\* The indexes, in file order, of the allowed blocks among the first k
AllowedUpTo(k) ==
    IF k = 0 THEN << >>
    ELSE IF Allowed(blocks[k]) THEN Append(AllowedUpTo(k - 1), k)
    ELSE AllowedUpTo(k - 1)

\* Blocks whose _read_channel call has returned
Completed == IF pc \in {"loop", "done"} THEN Current ELSE Current - 1

\* C1: a file of N well-formed blocks laid back to back is read with exactly
\* N block reader calls, call k starts at the first line of block k and
\* returns the first line after it, the last returned offset is the line
\* count, and without an allow-list the output is the N records in file order.
C1_OffsetAccounting ==
    /\ Current <= Len(blocks)
    /\ \A k \in 1..Current :
          /\ calls[k][1] = BlockStart(k)
          /\ calls[k][2] # 0 - 1 => calls[k][2] = BlockStart(k + 1)
    /\ (\A k \in 1..Len(blocks) : Sound(blocks[k])) => pc # "failed"
    /\ pc = "done" =>
          /\ Current = Len(blocks)
          /\ calls[Current][2] = Len(file)
          /\ line_offset = line_count /\ line_count = Len(file)
          /\ valid_station_types = None =>
                /\ Len(stream) = Len(blocks)
                /\ \A k \in 1..Len(blocks) : RecordOf(stream[k], blocks[k])

C1_Witness ==
    /\ pc = "done"
    /\ valid_station_types = None
    /\ Len(blocks) = 2
    /\ IntOf(blocks[1], 18) = 20
    /\ IntOf(blocks[2], 18) = 10
    /\ Len(stream) = 2

\* C2: with an allow-list the output is the subsequence of the blocks whose
\* station type is in the list, in file order; without one it is every
\* block; a rejected block still moves the offset past itself.
C2_StationTypeFilter ==
    pc \in {"loop", "done"} =>
        LET want == AllowedUpTo(Completed)
        IN  /\ Len(stream) = Len(want)
            /\ \A j \in 1..Len(want) : RecordOf(stream[j], blocks[want[j]])
            /\ line_offset = BlockStart(Completed + 1)

C2_Witness ==
    /\ pc = "done"
    /\ valid_station_types # None
    /\ Len(blocks) = 2
    /\ IntOf(blocks[1], 18) = 20
    /\ IntOf(blocks[2], 18) = 11
    /\ Len(stream) = 1
    /\ line_offset = Len(file)

\* The first block in file order with a fatal header condition, 0 if none
FirstFatal ==
    IF \E k \in 1..Len(blocks) : ~Sound(blocks[k])
    THEN CHOOSE k \in 1..Len(blocks) :
            ~Sound(blocks[k]) /\ \A j \in 1..(k - 1) : Sound(blocks[j])
    ELSE 0

UnknownTexts ==
    { [text |-> <<"-","9","9","9">>, val |-> 0 - 999],
      [text |-> <<" "," ","-","9","9">>, val |-> 0 - 99],
      [text |-> <<"n","/","a">>, val |-> 0 - 999] }

\* The sentinel-checked fields: the header array and index each is read from
\* and whether the mapped field is text
SentinelFields ==
    { [name |-> "delta", arr |-> "flt", idx |-> 33, text |-> FALSE],
      [name |-> "duration", arr |-> "flt", idx |-> 34, text |-> FALSE],
      [name |-> "latitude", arr |-> "flt", idx |-> 0, text |-> FALSE],
      [name |-> "longitude", arr |-> "flt", idx |-> 1, text |-> FALSE],
      [name |-> "elevation", arr |-> "flt", idx |-> 2, text |-> FALSE],
      [name |-> "instrument_period", arr |-> "flt", idx |-> 39, text |-> FALSE],
      [name |-> "instrument_damping", arr |-> "flt", idx |-> 40, text |-> FALSE],
      [name |-> "corner_frequency", arr |-> "flt", idx |-> 25, text |-> FALSE],
      [name |-> "v30", arr |-> "flt", idx |-> 3, text |-> FALSE],
      [name |-> "least_significant_bit", arr |-> "flt", idx |-> 21,
       text |-> FALSE],
      [name |-> "low_filter_corner", arr |-> "flt", idx |-> 53, text |-> FALSE],
      [name |-> "low_filter_decay", arr |-> "flt", idx |-> 54, text |-> FALSE],
      [name |-> "high_filter_corner", arr |-> "flt", idx |-> 56, text |-> FALSE],
      [name |-> "high_filter_decay", arr |-> "flt", idx |-> 57, text |-> FALSE],
      [name |-> "maximum", arr |-> "flt", idx |-> 63, text |-> FALSE],
      [name |-> "maximum_time", arr |-> "flt", idx |-> 64, text |-> FALSE],
      [name |-> "station_code", arr |-> "int", idx |-> 18, text |-> FALSE],
      [name |-> "scaling_factor", arr |-> "flt", idx |-> 87, text |-> FALSE],
      [name |-> "sensor_sensitivity", arr |-> "flt", idx |-> 41, text |-> FALSE],
      [name |-> "sensor_serial_number", arr |-> "int", idx |-> 52,
       text |-> TRUE],
      [name |-> "instrument", arr |-> "int", idx |-> 51, text |-> TRUE],
      [name |-> "structure_type", arr |-> "int", idx |-> 18, text |-> TRUE],
      [name |-> "units", arr |-> "int", idx |-> 1, text |-> TRUE] }

\* The mapped metadata field of a sentinel-checked field
MappedField(h, name) ==
    CASE name = "delta" -> h.delta
      [] name = "duration" -> h.duration
      [] name \in {"latitude", "longitude", "elevation"} -> h.coordinates[name]
      [] name \in {"instrument_period", "instrument_damping",
                   "corner_frequency", "sensor_serial_number", "instrument",
                   "structure_type", "units"} -> h.standard[name]
      [] OTHER -> h.format_specific[name]

WithUnknown(b, u) == [b EXCEPT !.unknown_text = u.text, !.unknown = u.val]

\* One sentinel-checked field holds the sentinel; the orientation is an
\* azimuth or a table code, the physical parameter and the instrument text
\* vary
SentinelFamily ==
    { [WithUnknown(BaseBlock, u) EXCEPT
          !.ints = Merge(IF f.arr = "int" THEN Over1(f.idx, u.val) ELSE NoOver,
                         Merge(Over1(53, ori), Over1(2, pp))),
          !.flts = IF f.arr = "flt" THEN Over1(f.idx, u.val) ELSE NoOver,
          !.instrument_text = it] :
      u \in UnknownTexts, f \in SentinelFields, ori \in {90, 500},
      pp \in {4, 1}, it \in {<< >>, <<"FBA-23">>} }

OrientationValues ==
    (DOMAIN COSMOS_ORIENTATIONS)
    \cup {0, 1, 44, 45, 46, 90, 134, 135, 136, 180, 224, 225, 226, 270,
          314, 315, 316, 359, 360, 361, 399, 403, 1000,
          0 - 1, 0 - 90, 0 - 999}

\* Every orientation value, with a reported or an unreported sample interval
OrientationFamily ==
    { [WithUnknown(BaseBlock, u) EXCEPT
          !.ints = Merge(Over1(53, ori), Over1(10, net)),
          !.flts = Over1(33, dl)] :
      u \in UnknownTexts \cup {[text |-> <<"9","0">>, val |-> 90]},
      ori \in OrientationValues,
      net \in {2, 0},
      dl \in {1, 2, 0 - 999} }

CodeChars == {"A", "K", "a", "k", "U", "W", "z", " "}

\* Every integer network code with every 2-character text code
NetworkFamily ==
    { [BaseBlock EXCEPT
          !.ints = Over1(10, net),
          !.network_code = <<c1, c2>>] :
      net \in (DOMAIN COSMOS_NETWORKS) \cup {0, 8, 0 - 999},
      c1 \in CodeChars, c2 \in CodeChars }

\* Integer location fields, reported or not
LocationFamily ==
    { [WithUnknown(BaseBlock, u) EXCEPT !.ints = Over1(55, loc)] :
      u \in UnknownTexts,
      loc \in {0 - 999, 0 - 99, 0 - 5, 0, 5, 9, 10, 12, 99, 100, 123} }

\* Every code-table field with a code of its table and a code outside it
CodeFamily ==
    { [BaseBlock EXCEPT
          !.ints = [j \in {51, 18, 60, 61, 1, 2, 75} |->
                       CASE j = 51 -> ins [] j = 18 -> bld [] j = 60 -> lo
                         [] j = 61 -> hi [] j = 1 -> un [] j = 2 -> pp
                         [] OTHER -> rf],
          !.instrument_text = it] :
      ins \in {4, 999}, bld \in {10, 999}, lo \in {5, 999}, hi \in {5, 999},
      un \in {2, 999}, pp \in {1, 5, 999}, rf \in {2, 999},
      it \in {<< >>, <<"FBA-23">>} }

\* Texts of lines[10][10:40], each with the process time a reader of the
\* line expects: the time stamp it spells as month, day, year and
\* hour:minute:second, or no stamp
ProcessLines ==
    { [text |-> <<" ">>,
        stamp |-> << >>],
      [text |-> <<"n","o","t"," ","p","r","o","c","e","s","s","e","d">>,
        stamp |-> << >>],
      [text |-> <<"a","b","/","c","d","/","2","0","0","5"," ","1","0",":","2","0",":","3","0">>,
        stamp |-> << >>],
      [text |-> <<"0","6","/","1","5","/","2","0","0","5">>,
        stamp |-> << >>],
      [text |-> <<"0","6","/","1","5","-","2","0","0","5"," ","1","0",":","2","0",":","3","0">>,
        stamp |-> << >>],
      [text |-> <<"0","2","/","3","0","/","2","0","0","5"," ","1","0",":","2","0",":","3","0">>,
        stamp |-> << >>],
      [text |-> <<"0","6","/","1","5","/","2","0","0","5"," ","2","5",":","2","0",":","3","0">>,
        stamp |-> << >>],
      [text |-> <<"2","0","0","5","-","0","6","-","1","5"," ","1","0",":","2","0",":","3","0">>,
        stamp |-> << >>],
      [text |-> <<"0","6","/","1","5","/","2","0","0","5"," ","1","0",":","2","0",":","3","0"," ","P","D","T">>,
        stamp |-> <<"TIMEFMT", 2005, 6, 15, 10, 20, 30>>],
      [text |-> <<"o","n"," ","0","2","-","2","9","-","2","0","0","4",","," ","2","3",":","5","9",":","5",".","2">>,
        stamp |-> <<"TIMEFMT", 2004, 2, 29, 23, 59, 5>>] }

\* Every process-time text, on a block that maps and on blocks whose
\* orientation or start time is fatal
ProcessFamily ==
    { [b EXCEPT !.process_line = p.text] :
      b \in {BaseBlock,
             [BaseBlock EXCEPT !.ints = Over1(53, 500)],
             [BaseBlock EXCEPT !.ints = Over1(39, 0 - 999)]},
      p \in ProcessLines }

HdrInputs ==
    SentinelFamily \cup OrientationFamily \cup NetworkFamily
    \cup LocationFamily \cup CodeFamily \cup ProcessFamily

InitHdr ==
    /\ \E b \in HdrInputs :
          /\ blocks = <<b>>
          /\ lines = TextLines(b)
          /\ int_data = IntArray(b.ints)
          /\ flt_data = FltArray(b.flts)
          /\ cmt_data = b.cmts
    /\ location \in {<< >>, <<"1", "0">>, <<"A">>}
    /\ pc = "hdr_in"
    /\ file = << >>
    /\ valid_station_types = None
    /\ line_count = 0
    /\ line_offset = 0
    /\ stream = << >>
    /\ skiprows = 0
    /\ hdr = [err |-> "none", hdr |-> Unset]
    /\ sect = NoSect
    /\ err = "none"
    /\ calls = << >>
    /\ probe = NoProbe
    /\ detected = FALSE
    /\ run = 1
    /\ first = None
    /\ st = None
    /\ fchp = << >>
    /\ options = << >>
    /\ events = << >>

\* hdr = _get_header_info(int_data, flt_data, lines, cmt_data, location)
MapOne ==
    /\ pc = "hdr_in"
    /\ hdr' = _get_header_info(int_data, flt_data, lines, cmt_data, location)
    /\ pc' = "hdr_out"
    /\ UNCHANGED <<file, blocks, valid_station_types, location, line_count,
                   line_offset, stream, lines, skiprows, int_data, flt_data,
                   cmt_data, sect, err, calls, probe, detected,
                   run, first, st, fchp, options, events>>

NextHdr == MapOne

SpecHdr == InitHdr /\ [][NextHdr]_vars

Mapped == pc = "hdr_out" /\ hdr.err = "none"

TheBlock == blocks[1]

RawOf(b, f) == IF f.arr = "int" THEN IntOf(b, f.idx) ELSE FltOf(b, f.idx)

\* C4 as claimed: every sentinel-checked field whose raw value equals the
\* block's sentinel is mapped to its default, NaN for a numeric field and
\* the empty string for a text field.
C4_AsClaimed ==
    Mapped =>
        \A f \in SentinelFields :
            RawOf(TheBlock, f) = TheBlock.unknown =>
                MappedField(hdr.hdr, f.name) =
                    IF f.text THEN Str(<< >>) ELSE NaN

C4_Witness ==
    /\ Mapped
    /\ TheBlock.unknown = 0 - 999
    /\ IntOf(TheBlock, 1) = TheBlock.unknown
    /\ IntOf(TheBlock, 2) = 1
    /\ hdr.hdr.standard.units = Unset

\* The reference mapping of C5 with the short label taken as the table has it
ClaimedChannel(angle, rate) ==
    IF angle \in {400, 401, 402}
    THEN get_channel_name(rate, TRUE, TRUE, FALSE)
    ELSE IF angle \in DOMAIN COSMOS_ORIENTATIONS
    THEN Str(COSMOS_ORIENTATIONS[angle][2])
    ELSE IF angle > 315 \/ angle < 45 \/ (135 < angle /\ angle < 225)
    THEN get_channel_name(rate, TRUE, FALSE, TRUE)
    ELSE get_channel_name(rate, TRUE, FALSE, FALSE)

\* The same with the short label in upper case
AmendedChannel(angle, rate) ==
    IF angle \in {500, 501, 600, 601, 700, 701, 2000}
    THEN Str(upper(COSMOS_ORIENTATIONS[angle][2]))
    ELSE ClaimedChannel(angle, rate)

InClaimedRange(angle) ==
    angle \in DOMAIN COSMOS_ORIENTATIONS \/ (0 <= angle /\ angle <= 360)

RateKnown == FltOf(TheBlock, 33) # TheBlock.unknown

\* C5 as claimed: with a known sample rate the channel code is the vertical
\* code for 400-402, the table's short label for the other table codes, the
\* north code for an azimuth near 0 or 180 and the east/other code for every
\* other azimuth of [0,360].
C5_AsClaimed ==
    (Mapped /\ RateKnown /\ InClaimedRange(IntOf(TheBlock, 53))) =>
        hdr.hdr.channel =
            ClaimedChannel(IntOf(TheBlock, 53), Recip(Num(FltOf(TheBlock, 33))))

\* C5 amended: as claimed, except that the label of a non-vertical table
\* code is the table's short label converted to upper case; every reported
\* orientation of the table or of [0,360] with a known rate is mapped, and
\* the only error left for such a block is the one of its start time.
C5_ChannelCode ==
    (/\ pc = "hdr_out"
     /\ RateKnown
     /\ InClaimedRange(IntOf(TheBlock, 53))
     /\ ~OrientationMissing(TheBlock)) =>
        /\ hdr.err \in {"none", "starttime"}
        /\ hdr.err = "none" =>
              hdr.hdr.channel =
                  AmendedChannel(IntOf(TheBlock, 53),
                                 Recip(Num(FltOf(TheBlock, 33))))

C5_Witness ==
    /\ Mapped
    /\ IntOf(TheBlock, 53) = 315
    /\ FltOf(TheBlock, 33) = 2
    /\ hdr.hdr.channel = get_channel_name([recip |-> 2], TRUE, FALSE, FALSE)

MaxCount == 6

\* Largest number of columns a numeric section is written in
MaxCols == 4

\* Largest number of lines before the section's descriptor
MaxLead == 2

\* The values of a section of n values, each known by its position
SectionValues(n) == [i \in 1..n |-> Num(100 + i)]

SectionComments(n) == [i \in 1..n |-> <<"|", i>>]

LeadLines(n) == [i \in 1..n |-> [kind |-> "text", text |-> <<"lead", i>>]]

SectionInputs ==
    { [comment |-> FALSE, count |-> n, cols |-> c, lead |-> l] :
        n \in 0..MaxCount, c \in 1..MaxCols, l \in 0..MaxLead }
    \cup
    { [comment |-> TRUE, count |-> n, cols |-> 0, lead |-> l] :
        n \in 0..MaxCount, l \in 0..MaxLead }

SectionLines(sec) ==
    LeadLines(sec.lead)
    \o (IF sec.comment
        THEN <<CommentDescriptor(sec.count)>>
             \o CommentLines(SectionComments(sec.count))
        ELSE <<Descriptor(sec.count, <<sec.cols, 10, 5>>)>>
             \o DataRows(SectionValues(sec.count), sec.cols))
    \o <<[kind |-> "eor"]>>

InitSec ==
    /\ \E sec \in SectionInputs :
          /\ blocks = <<sec>>
          /\ file = SectionLines(sec)
          /\ skiprows = sec.lead + 1
    /\ pc = "sec_in"
    /\ valid_station_types = None
    /\ location = << >>
    /\ line_count = 0
    /\ line_offset = 0
    /\ stream = << >>
    /\ lines = << >>
    /\ int_data = << >>
    /\ flt_data = << >>
    /\ cmt_data = << >>
    /\ hdr = [err |-> "none", hdr |-> Unset]
    /\ sect = NoSect
    /\ err = "none"
    /\ calls = << >>
    /\ probe = NoProbe
    /\ detected = FALSE
    /\ run = 1
    /\ first = None
    /\ st = None
    /\ fchp = << >>
    /\ options = << >>
    /\ events = << >>

\* sect = _read_lines(skiprows, filename)
ReadSection ==
    /\ pc = "sec_in"
    /\ sect' = _read_lines(skiprows, file)
    /\ pc' = "sec_out"
    /\ UNCHANGED <<file, blocks, valid_station_types, location, line_count,
                   line_offset, stream, lines, skiprows, int_data, flt_data,
                   cmt_data, hdr, err, calls, probe, detected,
                   run, first, st, fchp, options, events>>

NextSec == ReadSection

SpecSec == InitSec /\ [][NextSec]_vars

TheSection == blocks[1]

\* C8 as claimed: a numeric section of count values in rows of columns
\* fields is read as ceil(count / columns) rows and a payload of exactly the
\* count values in file order; a comment section as exactly count raw lines.
C8_AsClaimed ==
    pc = "sec_out" =>
        /\ sect.err = "none"
        /\ IF TheSection.comment
           THEN /\ sect.num_lines = TheSection.count
                /\ sect.data_arr = SectionComments(TheSection.count)
           ELSE /\ sect.num_lines * TheSection.cols >= TheSection.count
                /\ (sect.num_lines - 1) * TheSection.cols < TheSection.count
                /\ sect.data_arr = SectionValues(TheSection.count)

C8_Witness ==
    /\ pc = "sec_out"
    /\ ~TheSection.comment
    /\ TheSection.count = 5
    /\ TheSection.cols = 2
    /\ sect.num_lines = 3
    /\ Len(sect.data_arr) = 6
    /\ sect.data_arr[6] = NaN

\* ------------------------------------------------------------------------
\* is_cosmos.  A probe is the file as open(filename, 'rt').readline() meets
\* it: the text of the first line, whether the bytes of the first line
\* decode, and whether the whole first chunk the text layer decodes (the
\* first line and the lines after it that share the read buffer) decodes.
\* ------------------------------------------------------------------------
\* Largest number of pieces the first line is made of
MaxPieces == 3

FormatTag == <<"(","f","o","r","m","a","t"," ","v">>

LinePieces ==
    { <<"C","o","r","r","e","c","t","e","d"," ",
        "a","c","c","e","l","e","r","a","t","i","o","n">>,
      <<"U","N">>,
      <<"C","O","R","R","E","C","T","E","D"," ","A","C","C","E","L">>,
      <<" ","(","F","o","r","m","a","t"," ","v","0","1",".","2","0",")">>,
      <<" ","(","f","o","r","m","a","t"," ">>,
      <<"v","e","l","o","c","i","t","y">> }

RECURSIVE Concat(_)
Concat(ps) == IF Len(ps) = 0 THEN << >> ELSE ps[1] \o Concat(Tail(ps))

ProbeLines ==
    { Concat(ps) : ps \in UNION { [1..n -> LinePieces] : n \in 0..MaxPieces } }

is_cosmos(p) ==
    IF ~p.chunk_decodes
    THEN FALSE
    ELSE \E i \in 1..Len(VALID_MARKERS) :
            /\ contains(lower(p.line), lower(VALID_MARKERS[i]))
            /\ contains(lower(p.line), FormatTag)

InitDet ==
    /\ \E ln \in ProbeLines, ld \in BOOLEAN, cd \in BOOLEAN :
          /\ ~ld => ~cd
          /\ probe = [line |-> ln, line_decodes |-> ld, chunk_decodes |-> cd]
    /\ pc = "det_in"
    /\ file = << >>
    /\ blocks = << >>
    /\ valid_station_types = None
    /\ location = << >>
    /\ line_count = 0
    /\ line_offset = 0
    /\ stream = << >>
    /\ lines = << >>
    /\ skiprows = 0
    /\ int_data = << >>
    /\ flt_data = << >>
    /\ cmt_data = << >>
    /\ hdr = [err |-> "none", hdr |-> Unset]
    /\ sect = NoSect
    /\ err = "none"
    /\ calls = << >>
    /\ detected = FALSE
    /\ run = 1
    /\ first = None
    /\ st = None
    /\ fchp = << >>
    /\ options = << >>
    /\ events = << >>

\* detected = is_cosmos(filename)
Probe ==
    /\ pc = "det_in"
    /\ detected' = is_cosmos(probe)
    /\ pc' = "det_out"
    /\ UNCHANGED <<file, blocks, valid_station_types, location, line_count,
                   line_offset, stream, lines, skiprows, int_data, flt_data,
                   cmt_data, hdr, sect, err, calls, probe,
                   run, first, st, fchp, options, events>>

NextDet == Probe

SpecDet == InitDet /\ [][NextDet]_vars

HasMarker(line) ==
    \/ contains(upper(line), VALID_MARKERS[1])
    \/ contains(upper(line), VALID_MARKERS[2])

\* C10 as claimed: is_cosmos is true exactly when the first line decodes
\* and holds a marker and "(format v", whatever case they are written in;
\* nothing after the first line changes the result.
C10_AsClaimed ==
    pc = "det_out" =>
        (detected <=>
            /\ probe.line_decodes
            /\ HasMarker(probe.line)
            /\ contains(upper(probe.line), upper(FormatTag)))

C10_Witness ==
    /\ pc = "det_out"
    /\ probe.line_decodes
    /\ ~probe.chunk_decodes
    /\ HasMarker(probe.line)
    /\ contains(lower(probe.line), FormatTag)
    /\ ~detected

\* ------------------------------------------------------------------------
\* SpecTwice: read_cosmos called a second time on the same file with the
\* same options.  The second call starts from whatever the first left in
\* every variable; only the history is cleared.
\* ------------------------------------------------------------------------
CallAgain ==
    /\ run = 1
    /\ pc \in {"done", "failed"}
    /\ first' = [pc |-> pc, err |-> err, calls |-> calls, stream |-> stream]
    /\ run' = 2
    /\ pc' = "start"
    /\ err' = "none"
    /\ calls' = << >>
    /\ UNCHANGED <<file, blocks, valid_station_types, location, line_count,
                   line_offset, stream, lines, skiprows, int_data, flt_data,
                   cmt_data, hdr, sect, probe, detected, st, fchp, options,
                   events>>

NextTwice == Next \/ CallAgain

SpecTwice == Init /\ [][NextTwice]_vars

SoundBlocks ==
    { ScanBlock(station_type, [ints |-> NoOver, flts |-> NoOver]) :
        station_type \in {10, 20, 11} }

\* Position (1-based) of the last comment descriptor of a file
LastCommentDescriptor(f) ==
    CHOOSE p \in 1..Len(f) :
        /\ f[p].kind = "desc" /\ f[p].comment
        /\ \A q \in (p + 1)..Len(f) : ~(f[q].kind = "desc" /\ f[q].comment)

\* The counts the last comment descriptor may declare: the number of comment
\* lines that follow it, or the count that sends the sample read back to a
\* numeric descriptor before it
DeclaredCounts(bs) ==
    LET f == FileLines(bs)
        p == LastCommentDescriptor(f)
    IN  {bs[Len(bs)].cmt_count}
        \cup { t - p - 1 : t \in { q \in 1..(p - 1) :
                                     f[q].kind = "desc" /\ ~f[q].comment } }

InitMal ==
    /\ \E n \in 1..MaxBlocks :
         \E bs \in [1..n -> SoundBlocks] :
            \E c \in DeclaredCounts(bs) :
               /\ blocks = [bs EXCEPT ![n].cmt_count = c]
               /\ file = FileLines(blocks)
    /\ valid_station_types \in {None, [list |-> {10, 11}]}
    /\ location = << >>
    /\ pc = "start"
    /\ line_count = 0
    /\ line_offset = 0
    /\ stream = << >>
    /\ lines = << >>
    /\ skiprows = 0
    /\ int_data = << >>
    /\ flt_data = << >>
    /\ cmt_data = << >>
    /\ hdr = [err |-> "none", hdr |-> Unset]
    /\ sect = NoSect
    /\ err = "none"
    /\ calls = << >>
    /\ probe = NoProbe
    /\ detected = FALSE
    /\ run = 1
    /\ first = None
    /\ st = None
    /\ fchp = << >>
    /\ options = << >>
    /\ events = << >>

SpecMal == InitMal /\ [][Next]_vars

\* C12 as claimed: every block reader call that returns gives back an offset
\* strictly greater than the one it was given, no block starts below the
\* offset returned for the block before it, and the loop ends as soon as the
\* offset is no longer below the line count; so the scan of a finite file
\* makes at most one call per line and stops.
C12_AsClaimed ==
    /\ \A k \in 1..Len(calls) :
          /\ calls[k][2] # 0 - 1 => calls[k][2] > calls[k][1]
          /\ k > 1 => calls[k][1] >= calls[k - 1][2]
    /\ pc = "done" => line_offset >= line_count
    /\ pc \in {"text", "int", "flt", "cmt", "map", "smp", "adv"} =>
          line_offset < line_count

C12_Witness ==
    /\ Len(calls) = MaxCalls
    /\ Len(blocks) = 2
    /\ \A k \in 2..MaxCalls :
          /\ calls[k][1] = BlockStart(2)
          /\ k < MaxCalls => calls[k][2] = BlockStart(2)
    /\ pc = "loop"
    /\ line_offset = BlockStart(2)

\* The entry of a code table for a code, the default for a code outside it
TableOr(table, code, default) ==
    IF code \in DOMAIN table THEN Str(table[code]) ELSE default

\* C13 as claimed: in a mapped header instrument, structure type, both
\* filter types, units, physical units and record flag are all set, to the
\* table entry of a code that is in the table and otherwise to the empty
\* string, or for units to the 'acc', 'vel' or 'disp' inferred.
C13_AsClaimed ==
    (Mapped /\ TheBlock \in CodeFamily) =>
        LET h == hdr.hdr
            e == Str(<< >>)
        IN  /\ h.standard.instrument =
                  TableOr(SENSOR_TYPES, IntOf(TheBlock, 51), e)
            /\ h.standard.structure_type =
                  TableOr(BUILDING_TYPES, IntOf(TheBlock, 18), e)
            /\ h.format_specific.low_filter_type =
                  TableOr(FILTERS, IntOf(TheBlock, 60), e)
            /\ h.format_specific.high_filter_type =
                  TableOr(FILTERS, IntOf(TheBlock, 61), e)
            /\ h.format_specific.physical_units =
                  TableOr(PHYSICAL_UNITS, IntOf(TheBlock, 2), e)
            /\ h.format_specific.record_flag =
                  TableOr([c \in 0..2 |->
                              CASE c = 0 -> <<"No problem">>
                                [] c = 1 -> <<"Fixed">>
                                [] OTHER -> <<"Unfixed problem">>],
                          IntOf(TheBlock, 75), e)
            /\ h.standard.units # Unset
            /\ IF IntOf(TheBlock, 1) \in DOMAIN UNITS
               THEN h.standard.units = Str(UNITS[IntOf(TheBlock, 1)])
               ELSE h.standard.units \in
                       {e, Str(<<"acc">>), Str(<<"vel">>), Str(<<"disp">>)}

C13_Witness ==
    /\ Mapped
    /\ TheBlock \in CodeFamily
    /\ IntOf(TheBlock, 1) = 999
    /\ IntOf(TheBlock, 2) = 1
    /\ IntOf(TheBlock, 51) = 4
    /\ hdr.hdr.standard.units = Unset
    /\ hdr.hdr.format_specific.physical_units = Str(<<"sec">>)

\* The orientation is one whose channel code is computed from the sample
\* rate: a vertical table code or an azimuth of [0,360]
RateDerived(b) ==
    /\ ~OrientationMissing(b)
    /\ \/ IntOf(b, 53) \in {400, 401, 402}
       \/ (0 <= IntOf(b, 53) /\ IntOf(b, 53) <= 360)

\* C14 as claimed: whenever the channel code is derived from the sample rate
\* the sample rate is known; a block whose sample interval is not reported
\* never has its channel code derived from an undefined sample rate.
C14_AsClaimed ==
    (pc = "hdr_out" /\ RateDerived(TheBlock)) =>
        /\ hdr.err # "KeyError"
        /\ hdr.err = "none" => hdr.hdr.sampling_rate # Unset

C14_Witness ==
    /\ pc = "hdr_out"
    /\ IntOf(TheBlock, 53) = 90
    /\ TheBlock.unknown = 0 - 999
    /\ FltOf(TheBlock, 33) = 0 - 999
    /\ hdr.err = "KeyError"

\* C18 as claimed: for every orientation value that is not the sentinel the
\* mapper assigns a channel code or fails with the missing-orientation
\* error; it never gets to the channel assignment without a channel code.
C18_AsClaimed ==
    (pc = "hdr_out" /\ ~OrientationMissing(TheBlock)) =>
        /\ hdr.err # "UnboundLocalError"
        /\ hdr.err = "none" => hdr.hdr.channel # Unset

C18_Witness ==
    /\ pc = "hdr_out"
    /\ IntOf(TheBlock, 53) = 1000
    /\ FltOf(TheBlock, 33) = 1
    /\ hdr.err = "UnboundLocalError"

\* Where the writer put the descriptors of block k: line numbers, counted
\* from 1, of the integer, float, comment and sample descriptors
IntDescriptorAt(k) == BlockStart(k) + TEXT_HDR_ROWS

FltDescriptorAt(k) ==
    IntDescriptorAt(k) + Len(DataRows(IntArray(blocks[k].ints), 10)) + 1

CmtDescriptorAt(k) ==
    FltDescriptorAt(k)
    + Len(DataRows(FltArray(blocks[k].flts), blocks[k].flt_cols)) + 1

SmpDescriptorAt(k) == CmtDescriptorAt(k) + Len(blocks[k].cmts) + 1

SampleRows(k) == Len(DataRows(blocks[k].samples, blocks[k].smp_cols))

\* The steps of one _read_channel call and what may follow each
BlockSteps ==
    { <<"loop", "text">>, <<"text", "int">>, <<"int", "flt">>,
      <<"flt", "cmt">>, <<"cmt", "map">>, <<"map", "smp">>,
      <<"smp", "adv">>, <<"adv", "loop">> }

\* C15: within a block the steps text header, integer array, float array,
\* comments, header mapping, samples, offset advance are taken once each in
\* that order; each section is read at its descriptor, which lies at the
\* previous descriptor plus that section's rows plus 1; a header error
\* leaves the sample rows unread; the offset returned is the sample
\* descriptor plus the sample rows plus 1.
C15_StepOrder ==
    /\ [][(pc # "start" /\ pc' \notin {pc, "failed", "done", "start"})
            => <<pc, pc'>> \in BlockSteps]_vars
    /\ [](Current > 0 =>
            LET k == Current
            IN  /\ pc = "text" => line_offset = BlockStart(k)
                /\ pc = "int" => skiprows = IntDescriptorAt(k)
                /\ pc = "flt" => skiprows = FltDescriptorAt(k)
                /\ pc = "cmt" => skiprows = CmtDescriptorAt(k)
                /\ pc \in {"map", "smp", "adv"} =>
                      skiprows = SmpDescriptorAt(k)
                /\ pc \in {"map", "smp"} => sect.data_arr = cmt_data
                /\ (pc = "failed" /\ hdr.err # "none") =>
                      /\ skiprows = SmpDescriptorAt(k)
                      /\ sect.data_arr = cmt_data
                      /\ sect.num_lines = Len(blocks[k].cmts)
                /\ pc = "adv" =>
                      /\ sect.num_lines = SampleRows(k)
                      /\ SubSeq(sect.data_arr, 1, Len(blocks[k].samples))
                            = blocks[k].samples
                /\ pc = "loop" =>
                      /\ calls[k][2] = SmpDescriptorAt(k) + SampleRows(k) + 1
                      /\ line_offset = calls[k][2])

C15_Witness ==
    /\ pc = "adv"
    /\ Current = 2
    /\ skiprows = SmpDescriptorAt(2)
    /\ Len(blocks[2].samples) = 3
    /\ sect.num_lines = 2
    /\ Len(stream) = 1

\* ------------------------------------------------------------------------
\* C16: the process time of header line 11 (core.py lines 477-499)
\* ------------------------------------------------------------------------
ExpectedStamp(text) ==
    (CHOOSE p \in ProcessLines : p.text = text).stamp

ParseableLine ==
    (CHOOSE p \in ProcessLines :
        p.stamp = <<"TIMEFMT", 2005, 6, 15, 10, 20, 30>>).text

\* The mapper's result for the same block with a process time that parses
ParseableTwin(b) ==
    LET twin == [b EXCEPT !.process_line = ParseableLine]
    IN  _get_header_info(IntArray(twin.ints), FltArray(twin.flts),
                         TextLines(twin), twin.cmts, location)

\* C16: whatever text stands in the process-time columns of header line 11,
\* the mapper ends as it does for the same block with a process time that
\* parses: the same error or none, and when it returns, the process time is
\* the time stamp the text spells, or empty when it spells none, and every
\* other field is the one of the block with the parseable process time.
C16_ProcessTime ==
    pc = "hdr_out" =>
        LET twin == ParseableTwin(TheBlock)
        IN  /\ hdr.err = twin.err
            /\ hdr.err = "none" =>
                  /\ hdr.hdr.standard.process_time =
                         Str(ExpectedStamp(TheBlock.process_line))
                  /\ [hdr.hdr EXCEPT !.standard.process_time =
                                         twin.hdr.standard.process_time]
                         = twin.hdr

\* A block whose process time names the 30th of February has been mapped
C16_Witness ==
    /\ pc = "hdr_out"
    /\ hdr.err = "none"
    /\ contains(TheBlock.process_line, <<"0","2","/","3","0">>)
    /\ hdr.hdr.standard.process_time = Str(<< >>)
    /\ hdr.hdr.starttime # Unset
\* ------------------------------------------------------------------------
\* ridder_fchp (adjust_highpass_ridder.py lines 11-79).  Frequencies are
\* whole tenths of a hertz.  The stream st is [passed, traces]; a trace is
\* [corner_frequencies, failed].  fchp holds maxfc and, for each trace, the
\* corner that auto_fchp.get_fchp returns for it: get_fchp searches below
\* fchp_max = maxfc, so its result is a frequency of 0..maxfc.
\* ------------------------------------------------------------------------
MaxTraces == 2

Giga == 1000000000

\* d > 1e9, for d in tenths
over_1e9(d) ==
    \/ d \div 10 > Giga
    \/ d \div 10 = Giga /\ d % 10 > 0

Corners == {0, 1, 3, 5, 10}

MaxCorners == {5, 10}

RidTraces ==
    [corner_frequencies :
         [type : {<<"snr">>}, highpass : {0, 1, 5}, lowpass : {200}],
     failed : BOOLEAN]

\* The trace after the loop body of lines 52-78
ridder_trace(tr, new_f_hp, maxfc) ==
    LET initial_corners == tr.corner_frequencies
        initial_f_hp == initial_corners.highpass
    IN  IF over_1e9(maxfc - new_f_hp)
        THEN [tr EXCEPT !.failed = TRUE]
        ELSE IF new_f_hp > initial_f_hp
        THEN [tr EXCEPT !.corner_frequencies =
                            [type |-> <<"snr_polyfit">>,
                             highpass |-> new_f_hp,
                             lowpass |-> initial_corners.lowpass]]
        ELSE tr

\* ridder_fchp(st, maxfc=maxfc): the stream returned
ridder_fchp(stream_in, new_f_hps, maxfc) ==
    IF ~stream_in.passed
    THEN stream_in
    ELSE [stream_in EXCEPT
             !.traces = [i \in 1..Len(stream_in.traces) |->
                            ridder_trace(stream_in.traces[i], new_f_hps[i],
                                         maxfc)]]

InitRid ==
    /\ \E n \in 1..MaxTraces, passed \in BOOLEAN, maxfc \in MaxCorners :
          /\ \E traces \in [1..n -> RidTraces] :
                st = [passed |-> passed, traces |-> traces]
          /\ \E results \in [1..n -> {c \in Corners : c <= maxfc}] :
                fchp = [maxfc |-> maxfc, new_f_hp |-> results]
    /\ pc = "rid_in"
    /\ file = << >>
    /\ blocks = << >>
    /\ valid_station_types = None
    /\ location = << >>
    /\ line_count = 0
    /\ line_offset = 0
    /\ stream = << >>
    /\ lines = << >>
    /\ skiprows = 0
    /\ int_data = << >>
    /\ flt_data = << >>
    /\ cmt_data = << >>
    /\ hdr = [err |-> "none", hdr |-> Unset]
    /\ sect = NoSect
    /\ err = "none"
    /\ calls = << >>
    /\ probe = NoProbe
    /\ detected = FALSE
    /\ run = 1
    /\ first = None
    /\ options = << >>
    /\ events = << >>

\* st = ridder_fchp(st, maxfc=maxfc)
Ridder ==
    /\ pc = "rid_in"
    /\ st' = ridder_fchp(st, fchp.new_f_hp, fchp.maxfc)
    /\ pc' = "rid_out"
    /\ UNCHANGED <<file, blocks, valid_station_types, location, line_count,
                   line_offset, stream, lines, skiprows, int_data, flt_data,
                   cmt_data, hdr, sect, err, calls, probe, detected,
                   run, first, fchp, options, events>>

NextRid == Ridder

SpecRid == InitRid /\ [][NextRid]_vars

\* C17 as claimed: in a passed stream a trace whose new corner reaches maxfc
\* is marked failed and keeps its corner_frequencies; a stream that has not
\* passed is returned with no trace modified.
C17_AsClaimed ==
    [][(pc = "rid_in" /\ pc' = "rid_out") =>
          /\ st.passed =>
                \A i \in 1..Len(st.traces) :
                    fchp.new_f_hp[i] >= fchp.maxfc =>
                        /\ st'.traces[i].failed
                        /\ st'.traces[i].corner_frequencies =
                               st.traces[i].corner_frequencies
          /\ ~st.passed => st' = st]_vars

\* A trace of a passed stream whose search ended at maxfc is returned
\* unfailed with maxfc as its highpass corner
C17_Witness ==
    /\ pc = "rid_out"
    /\ st.passed
    /\ \E i \in 1..Len(st.traces) :
          /\ fchp.new_f_hp[i] = fchp.maxfc
          /\ ~st.traces[i].failed
          /\ st.traces[i].corner_frequencies.highpass = fchp.maxfc
          /\ st.traces[i].corner_frequencies.type = <<"snr_polyfit">>

\* ------------------------------------------------------------------------
\* KNETFetcher.getMatchingEvents (knet_fetcher.py lines 98-182).  Times are
\* whole seconds, coordinates hundredths of a degree, depths kilometres and
\* magnitudes tenths.  options is the list of <option> elements of the
\* catalogue page, each with the numbers parsed from its text (lines
\* 130-145) and its value attribute; events is the list returned.
\* ------------------------------------------------------------------------
MaxOptions == 3

JST_OFFSET == 9 * 3600

\* The fetcher: self.time, self.lat, self.lon, self.radius, self.dt
Fetcher ==
    [time |-> 1000, lat |-> 3500, lon |-> 13900, radius |-> 100, dt |-> 16]

\* self.jptime = self.time + timedelta(seconds=JST_OFFSET)
jptime == Fetcher.time + JST_OFFSET

Abs(x) == IF x < 0 THEN 0 - x ELSE x

\* openquake's geodetic_distance in kilometres, here 111 km for each degree
\* of latitude and of longitude between the two points
geodetic_distance(lon1, lat1, lon2, lat2) ==
    (111 * (Abs(lat2 - lat1) + Abs(lon2 - lon1))) \div 100

\* Catalogue entries around the fetcher's place and time: far away, near
\* and in time, at the edge of the time window, past it, near the radius
KnetOptions ==
    { [time |-> jptime, lat |-> 3800, lon |-> 13900, depth |-> 10,
       mag |-> 61, value |-> <<"e1">>],
      [time |-> jptime + 5, lat |-> 3510, lon |-> 13900, depth |-> 20,
       mag |-> 52, value |-> <<"e2">>],
      [time |-> jptime - 16, lat |-> 3500, lon |-> 13950, depth |-> 30,
       mag |-> 43, value |-> <<"e3">>],
      [time |-> jptime + 17, lat |-> 3490, lon |-> 13900, depth |-> 40,
       mag |-> 34, value |-> <<"e4">>],
      [time |-> jptime - 3, lat |-> 3500, lon |-> 13810, depth |-> 50,
       mag |-> 55, value |-> <<"e5">>] }

\* didx & tidx of lines 153-158 for one catalogue entry
in_window(o) ==
    /\ geodetic_distance(Fetcher.lon, Fetcher.lat, o.lon, o.lat)
           <= Fetcher.radius
    /\ Abs(jptime - o.time) <= Fetcher.dt

\* arr[didx & tidx]: the entries of the window, in catalogue order
RECURSIVE masked(_)
masked(opts) ==
    IF Len(opts) = 0 THEN << >>
    ELSE IF in_window(Head(opts)) THEN <<Head(opts)>> \o masked(Tail(opts))
    ELSE masked(Tail(opts))

\* The dictionaries built by the loop of lines 165-176: zip pairs the i-th
\* entry of the window with values[i], the value of the i-th option
matched_events(opts) ==
    LET e == masked(opts)
        values == [i \in 1..Len(opts) |-> opts[i].value]
    IN  [i \in 1..Min(Len(e), Len(values)) |->
            [time |-> e[i].time - JST_OFFSET,
             lat |-> e[i].lat, lon |-> e[i].lon,
             depth |-> e[i].depth, mag |-> e[i].mag,
             cgi_value |-> values[i]]]

\* DataFetcher.solveEvents(events): one event of the list
solveEvents(evs) == { evs[i] : i \in 1..Len(evs) }

InitKnet ==
    /\ \E n \in 1..MaxOptions :
          \E catalogue \in [1..n -> KnetOptions] :
              /\ \A i, j \in 1..n : i # j => catalogue[i] # catalogue[j]
              /\ options = catalogue
    /\ events = << >>
    /\ pc = "knet_in"
    /\ file = << >>
    /\ blocks = << >>
    /\ valid_station_types = None
    /\ location = << >>
    /\ line_count = 0
    /\ line_offset = 0
    /\ stream = << >>
    /\ lines = << >>
    /\ skiprows = 0
    /\ int_data = << >>
    /\ flt_data = << >>
    /\ cmt_data = << >>
    /\ hdr = [err |-> "none", hdr |-> Unset]
    /\ sect = NoSect
    /\ err = "none"
    /\ calls = << >>
    /\ probe = NoProbe
    /\ detected = FALSE
    /\ run = 1
    /\ first = None
    /\ st = None
    /\ fchp = << >>

\* events = self.getMatchingEvents(solve=solve)
getMatchingEvents(solve) ==
    /\ pc = "knet_in"
    /\ LET found == matched_events(options)
       IN  IF solve /\ Len(found) > 1
           THEN \E event \in solveEvents(found) : events' = <<event>>
           ELSE events' = found
    /\ pc' = IF solve THEN "knet_solved" ELSE "knet_all"
    /\ UNCHANGED <<file, blocks, valid_station_types, location, line_count,
                   line_offset, stream, lines, skiprows, int_data, flt_data,
                   cmt_data, hdr, sect, err, calls, probe, detected,
                   run, first, st, fchp, options>>

NextKnet == \E solve \in BOOLEAN : getMatchingEvents(solve)

SpecKnet == InitKnet /\ [][NextKnet]_vars

\* The event dictionary of one catalogue entry
EventOf(o) ==
    [time |-> o.time - JST_OFFSET, lat |-> o.lat, lon |-> o.lon,
     depth |-> o.depth, mag |-> o.mag, cgi_value |-> o.value]

\* C19 as claimed: every returned event carries the time, place, depth,
\* magnitude and option value of one and the same catalogue entry, and with
\* solve=True at most one event is returned.
C19_AsClaimed ==
    pc \in {"knet_all", "knet_solved"} =>
        /\ \A i \in 1..Len(events) :
              \E k \in 1..Len(options) : events[i] = EventOf(options[k])
        /\ pc = "knet_solved" => Len(events) <= 1

\* The first catalogue entry lies outside the window and the event returned
\* for the second carries the first entry's option value
C19_Witness ==
    /\ pc = "knet_all"
    /\ Len(options) >= 2
    /\ ~in_window(options[1])
    /\ in_window(options[2])
    /\ Len(events) >= 1
    /\ events[1].lat = options[2].lat
    /\ events[1].cgi_value = options[1].value
    /\ options[1].value # options[2].value

=============================================================================
